---- MODULE Spec2Model ----
(***************************************************************************)
(* A model of the interaction playback engine (src/src/playback.js, class  *)
(* InteractionPlayback and its command-line main) and of the recorder that *)
(* writes the recordings (src/src/index.js, class InteractionRecorder).    *)
(*                                                                         *)
(* Numbers.  JavaScript numbers are modelled by exact rationals            *)
(* [num, den] in lowest terms with den > 0; the timestamps and speeds used *)
(* here are far from the limits of IEEE doubles.  A missing timestamp      *)
(* (undefined, null) is modelled by 0: startPlayback reads a timestamp     *)
(* only through truthiness tests and calculateDelay, and 0, undefined and  *)
(* null are all falsy.                                                     *)
(*                                                                         *)
(* Strings.  Optional string fields of an interaction record hold a string *)
(* or one of the markers Undefined and JsNull.  className is held as the   *)
(* list of its space-separated class names (what split(' ') returns), the  *)
(* empty list standing for an absent className.                            *)
(***************************************************************************)
EXTENDS Integers, Sequences, FiniteSets, TLC

----------------------------------------------------------------------------
(* JavaScript values *)

Undefined == "<undefined>"
JsNull == "<null>"

\* Boolean(v) for a string-valued field, as used by Array.filter(Boolean)
\* and by the && / || tests of the source.
Truthy(v) == v \notin {Undefined, JsNull, ""}

\* Conversion of a value inside a template literal: `${v}`.
TemplateString(v) ==
  IF v = Undefined THEN "undefined" ELSE IF v = JsNull THEN "null" ELSE v

----------------------------------------------------------------------------
(* Rationals *)

RECURSIVE Gcd(_, _)
Gcd(a, b) == IF b = 0 THEN a ELSE Gcd(b, a % b)

Abs(a) == IF a < 0 THEN -a ELSE a

\* What JavaScript arithmetic gives where no rational exists: Infinity and
\* -Infinity (x / 0 for x # 0) and NaN (0 / 0, or arithmetic on a value that
\* is not a number).
Infinity == [num |-> 1, den |-> 0]
MinusInfinity == [num |-> -1, den |-> 0]
NaN == [num |-> 0, den |-> 0]

\* The number n/d: for d # 0 the rational in lowest terms with a positive
\* denominator.
Rat(n, d) ==
  IF d = 0
    THEN IF n > 0 THEN Infinity ELSE IF n < 0 THEN MinusInfinity ELSE NaN
    ELSE LET g == Gcd(Abs(n), Abs(d))
             s == IF d < 0 THEN -1 ELSE 1
         IN [num |-> s * (n \div g), den |-> s * (d \div g)]

RatOfInt(n) == [num |-> n, den |-> 1]
\* <= and < ; false when either side is NaN
RatLE(p, q) == p # NaN /\ q # NaN /\ p.num * q.den <= q.num * p.den
RatLT(p, q) == p # NaN /\ q # NaN /\ p.num * q.den < q.num * p.den
\* Math.max
RatMax(p, q) == IF p = NaN \/ q = NaN THEN NaN ELSE IF RatLE(p, q) THEN q ELSE p
\* p / q
RatDiv(p, q) == Rat(p.num * q.den, p.den * q.num)
RatMul(p, q) == Rat(p.num * q.num, p.den * q.den)

----------------------------------------------------------------------------
(* Bounds and input sets *)

\* Most pages (tabs, popups) the browser has open.
MaxPages == 3

\* Most interactions captured in one recording session.
MaxCaptures == 3

\* Longest recording loaded.
MaxLen == 2
\* Calls of startPlayback on one instance.
MaxRuns == 2

\* Minimum delay of calculateDelay, also the "significant" threshold of
\* startPlayback.
FloorMs == 50
SignificantMs == 50

\* Playback speeds: the README's 0.25x..4x, and the 0.75 of the test script.
AllSpeeds == {Rat(1, 4), Rat(1, 2), Rat(3, 4), Rat(1, 1), Rat(2, 1), Rat(4, 1)}
DefaultSpeed == Rat(1, 1)

\* Speeds a caller may hand to setPlaybackSpeed, which takes any value: zero,
\* negative, and NaN for a value that is not a number, next to positive ones.
GivenSpeeds == {Rat(0, 1), Rat(-1, 1), Rat(-1, 2), NaN, Rat(1, 2), Rat(2, 1)}

\* Timestamps handed to calculateDelay directly.
DelayTimestamps == {0, 20, 980, 1000, 1020, 1040, 1500, 2000}

----------------------------------------------------------------------------
(* State *)

VARIABLES
  browser,            \* this.browser: "null", "open" or "closed" (after close())
  page,               \* this.page: 0 for null, else a page handle
  pages,              \* the browser's list of open pages (browser.pages())
  playbackSpeed,      \* this.playbackSpeed
  recording,          \* this.recording: NoRecording or the loaded file
  pageUrl,            \* URL of the live page
  dom,                \* selectors matching a present element during the last event
  pc,                 \* position of startPlayback: "idle", "delay" or "play"
  i,                  \* loop index of startPlayback (0-based)
  previousTimestamp,  \* local of startPlayback (0 for null)
  delayArgs,          \* the last calculateDelay call: <<previous, current, speed>>
  delay,              \* result of the last calculateDelay call
  runs,               \* number of startPlayback calls so far
  outcome,            \* how the last startPlayback call ended
  dispatched,         \* indices handed to playInteraction in this run, in order
  waits,              \* per loop iteration of this run: the time waited, or NoWait
  failed,             \* indices of this run whose playInteraction caught an error
  lastOps,            \* browser operations of the last playInteraction call
  console,            \* messages logged by the last playInteraction call
  caught,             \* the last playInteraction call caught an error
  current,            \* the record handed to the last playInteraction call
  element,            \* the last event's element: el.checked before and after the
                      \* event, and whether its tag is FORM
  loadLog,            \* messages logged by loadRecording
  startLog,           \* messages logged by the last startPlayback call itself
  sigint,             \* the SIGINT handler of main: "none", "closing" or "exited"
  entry,              \* this.page and the page URL when the last playInteraction
                      \* call was entered
  recorded,           \* InteractionRecorder: this.interactions
  pageBuffer,         \* window.recordedInteractions of the recorded page
  drain,              \* the running drain callback: what its evaluate returned
                      \* and whether it has been pushed
  savedFile,          \* the file written by saveInteractions
  captured,           \* every interaction captured so far, in capture order
  recorderPc,         \* the recorder: "new", "recording", "closing" or "exited"
  inFlight            \* the playInteraction calls that have not returned yet,
                      \* each with the browser operations it has still to make

vars == <<browser, page, pages, playbackSpeed, recording, pageUrl, dom, pc, i,
          previousTimestamp, delayArgs, delay, runs, outcome, dispatched,
          waits, failed, lastOps, console, caught, current, element,
          loadLog, startLog, sigint, entry, recorded, pageBuffer, drain,
          savedFile, captured, recorderPc, inFlight>>

instanceVars == <<browser, page, pages, playbackSpeed, recording>>
pageVars == <<pageUrl, dom>>
loopVars == <<pc, i, previousTimestamp, runs, outcome, dispatched, waits, failed>>
delayVars == <<delayArgs, delay>>
eventVars == <<lastOps, console, caught, current, element, entry>>
logVars == <<loadLog, startLog>>
recorderVars == <<recorded, pageBuffer, drain, savedFile, captured, recorderPc>>
playbackVars == <<instanceVars, pageVars, loopVars, delayVars, eventVars, logVars,
                  sigint, inFlight>>

NoRecording == [totalInteractions |-> -1, interactions |-> <<>>, loaded |-> FALSE]
NoDelay == [num |-> -1, den |-> 1]
NoWait == [num |-> 0, den |-> 1]
NoArgs == <<>>
NoElement == [before |-> FALSE, after |-> FALSE, isForm |-> FALSE]
NoFile == [totalInteractions |-> -1, interactions |-> <<>>, saved |-> FALSE]
NoDrain == [active |-> FALSE, pushed |-> FALSE, taken |-> <<>>]
BlankUrl == "about:blank"
NoEntry == [page |-> 0, url |-> BlankUrl]

----------------------------------------------------------------------------
(* Timing Scheduler *)

\* calculateDelay(previousTimestamp, currentTimestamp) at this.playbackSpeed
\* (lines 58-61), preceded by two variants: one multiplying by the speed, one
\* without the floor.
calculateDelayInverted(previousTs, currentTs, speed) ==
  LET realDelay == currentTs - previousTs
  IN RatMax(RatMul(RatOfInt(realDelay), speed), RatOfInt(FloorMs))

calculateDelayNoFloor(previousTs, currentTs, speed) ==
  LET realDelay == currentTs - previousTs
  IN RatDiv(RatOfInt(realDelay), speed)

calculateDelay(previousTs, currentTs, speed) ==
  LET realDelay == currentTs - previousTs
  IN RatMax(RatDiv(RatOfInt(realDelay), speed), RatOfInt(FloorMs))

----------------------------------------------------------------------------
(* Interaction records *)

\* A record with every optional field absent.
BlankInteraction ==
  [type |-> "click", timestamp |-> 0, url |-> Undefined,
   selector |-> Undefined, id |-> Undefined, className |-> <<>>,
   name |-> Undefined, tagName |-> Undefined, value |-> Undefined,
   checked |-> FALSE, coordinates |-> <<>>]

\* String.prototype.toLowerCase on the tag names that occur; tagName?.toLowerCase()
\* of an absent tagName is undefined.
ToLowerCase(s) ==
  CASE s = "BUTTON" -> "button"
    [] s = "INPUT" -> "input"
    [] s = "SELECT" -> "select"
    [] s = "FORM" -> "form"
    [] s = "A" -> "a"
    [] s = "DIV" -> "div"
    [] OTHER -> IF Truthy(s) THEN s ELSE Undefined

\* className?.split(' ').join('.') ; undefined for an absent className
RECURSIVE Join(_, _)
Join(parts, sep) ==
  IF Len(parts) = 0 THEN ""
  ELSE IF Len(parts) = 1 THEN parts[1]
  ELSE parts[1] \o sep \o Join(Tail(parts), sep)

SplitJoin(className) ==
  IF className = <<>> THEN Undefined ELSE Join(className, ".")

\* The candidate selectors built by the handlers' template literals.
IdSelector(r) == "#" \o TemplateString(r.id)
ClassSelector(r) == "." \o TemplateString(SplitJoin(r.className))
NameSelector(r) == "[name=\"" \o TemplateString(r.name) \o "\"]"
TagSelector(r) == ToLowerCase(r.tagName)

\* Array.prototype.filter(Boolean)
FilterBoolean(xs) == SelectSeq(xs, Truthy)

\* playClick: selectors (lines 144-149), preceded by a variant trying the id
\* first.
ClickSelectorsIdFirst(r) ==
  FilterBoolean(<<IdSelector(r), r.selector, ClassSelector(r), TagSelector(r)>>)

ClickSelectors(r) ==
  FilterBoolean(<<r.selector, IdSelector(r), ClassSelector(r), TagSelector(r)>>)

\* playInput, playChange, playCheckbox: selectors, preceded by a variant
\* with the candidates of playClick.
NameSelectorsAsClick(r) ==
  FilterBoolean(<<r.selector, IdSelector(r), ClassSelector(r), TagSelector(r)>>)

NameSelectors(r) ==
  FilterBoolean(<<r.selector, IdSelector(r), NameSelector(r)>>)

Range(f) == {f[k] : k \in DOMAIN f}

----------------------------------------------------------------------------
(* Browser capability                                                      *)
(*                                                                         *)
(* The outcome of the browser calls of one event is an environment record  *)
(*   stale        the liveness probe page.url() throws                     *)
(*   unresponsive page.evaluate throws                                     *)
(*   navOk        the goto of playInteraction succeeds                     *)
(*   navOk2       the goto of playNavigation succeeds                      *)
(*   dom          the selectors that match a present, visible element      *)
(*   failing      the present selectors on which an element action (click, *)
(*                focus, select) throws                                    *)
(*   mouseOk      page.mouse.click succeeds                                *)
(*   isChecked    el.checked of the matched element                        *)
(*   isForm       the element matched by the record's selector is a FORM   *)
(* A closed browser fails every call.                                      *)
(***************************************************************************)

Op(op, sel, ok) ==
  [op |-> op, sel |-> sel, val |-> Undefined, xy |-> <<>>, ok |-> ok]
OpVal(op, sel, val, ok) ==
  [op |-> op, sel |-> sel, val |-> val, xy |-> <<>>, ok |-> ok]
OpXY(op, xy, ok) ==
  [op |-> op, sel |-> Undefined, val |-> Undefined, xy |-> xy, ok |-> ok]
Msg(m, a) == [msg |-> m, arg |-> a]
NoInteraction == [BlankInteraction EXCEPT !.type = "<none>"]

\* What a handler did: browser operations, messages, whether an error
\* escaped it, and this.page and the page URL afterwards.
Res(ops, log, threw, pg, url) ==
  [ops |-> ops, log |-> log, threw |-> threw, page |-> pg, url |-> url]

\* a; b  (b is not run when a threw)
AndThen(a, b) ==
  IF a.threw THEN a
  ELSE Res(a.ops \o b.ops, a.log \o b.log, b.threw, b.page, b.url)

Last(xs) == xs[Len(xs)]

\* pages = await this.browser.pages(); this.page = pages[pages.length - 1]
\* Preceded by a variant taking pages[0].
ReacquireFirst(pg, url) ==
  IF browser = "open"
    THEN Res(<<Op("pages", Undefined, TRUE)>>, <<>>, FALSE, pages[1], url)
    ELSE Res(<<Op("pages", Undefined, FALSE)>>, <<>>, TRUE, pg, url)

Reacquire(pg, url) ==
  IF browser = "open"
    THEN Res(<<Op("pages", Undefined, TRUE)>>, <<>>, FALSE, Last(pages), url)
    ELSE Res(<<Op("pages", Undefined, FALSE)>>, <<>>, TRUE, pg, url)

\* ensurePageReady (lines 341-350)
ensurePageReady(pg, url, e) ==
  IF ~e.unresponsive
    THEN Res(<<Op("evaluate", "document.readyState", TRUE)>>, <<>>, FALSE, pg, url)
    ELSE AndThen(Res(<<Op("evaluate", "document.readyState", FALSE)>>,
                     <<Msg("Page became unresponsive", Undefined)>>, FALSE, pg, url),
                 Reacquire(pg, url))

\* waitForElement (lines 331-338): never throws
waitForElement(selector, pg, url, e) ==
  IF selector \in e.dom
    THEN Res(<<Op("waitForSelector", selector, TRUE)>>, <<>>, FALSE, pg, url)
    ELSE Res(<<Op("waitForSelector", selector, FALSE)>>,
             <<Msg("Warning: Element not found within timeout", selector)>>,
             FALSE, pg, url)

----------------------------------------------------------------------------
(* Action Dispatcher *)

\* playNavigation (lines 125-136)
playNavigation(r, pg, url, e) ==
  IF Truthy(r.url) /\ url # r.url
    THEN IF e.navOk2
           THEN Res(<<Op("goto", r.url, TRUE)>>, <<Msg("Navigated to", r.url)>>,
                    FALSE, pg, r.url)
           ELSE Res(<<Op("goto", r.url, FALSE)>>, <<Msg("Navigation failed", r.url)>>,
                    FALSE, pg, url)
    ELSE Res(<<>>, <<>>, FALSE, pg, url)

\* The candidate loop of playClick (lines 151-165), from candidate k on:
\* the operations, the messages and whether a click succeeded.  Preceded by
\* a variant without the break after a click.
RECURSIVE ClickLoopNoBreak(_, _, _)
ClickLoopNoBreak(selectors, k, e) ==
  IF k > Len(selectors)
    THEN [ops |-> <<>>, log |-> <<>>, done |-> FALSE]
    ELSE LET selector == selectors[k]
             rest == ClickLoopNoBreak(selectors, k + 1, e)
         IN IF selector \notin e.dom
              THEN [rest EXCEPT !.ops = <<Op("$", selector, FALSE)>> \o @]
              ELSE IF selector \in e.failing
                THEN [rest EXCEPT !.ops = <<Op("$", selector, TRUE),
                                           Op("click", selector, FALSE)>> \o @]
                ELSE [ops |-> <<Op("$", selector, TRUE), Op("click", selector, TRUE)>>
                              \o rest.ops,
                      log |-> <<Msg("Clicked", selector)>> \o rest.log,
                      done |-> TRUE]

RECURSIVE ClickLoop(_, _, _)
ClickLoop(selectors, k, e) ==
  IF k > Len(selectors)
    THEN [ops |-> <<>>, log |-> <<>>, done |-> FALSE]
    ELSE LET selector == selectors[k]
             rest == ClickLoop(selectors, k + 1, e)
         IN IF selector \notin e.dom
              THEN [rest EXCEPT !.ops = <<Op("$", selector, FALSE)>> \o @]
              ELSE IF selector \in e.failing
                THEN [rest EXCEPT !.ops = <<Op("$", selector, TRUE),
                                           Op("click", selector, FALSE)>> \o @]
                ELSE [ops |-> <<Op("$", selector, TRUE), Op("click", selector, TRUE)>>,
                      log |-> <<Msg("Clicked", selector)>>,
                      done |-> TRUE]

\* The coordinate fallback of playClick (lines 167-179), run when no candidate
\* was clicked, preceded by two variants: one without the mouse click, one
\* passing (y, x).
ClickFallbackNone(r, e) ==
  [ops |-> <<>>, log |-> <<Msg("Could not click element", r.selector)>>]

ClickFallbackSwapped(r, e) ==
  IF r.coordinates # <<>>
    THEN [ops |-> <<OpXY("mouse.click", <<r.coordinates[2], r.coordinates[1]>>, e.mouseOk)>>,
          log |-> <<Msg("Clicked at coordinates", Undefined)>>]
    ELSE [ops |-> <<>>, log |-> <<Msg("Could not click element", r.selector)>>]

ClickFallback(r, e) ==
  IF r.coordinates # <<>>
    THEN [ops |-> <<OpXY("mouse.click", <<r.coordinates[1], r.coordinates[2]>>, e.mouseOk)>>,
          log |-> <<Msg(IF e.mouseOk THEN "Clicked at coordinates"
                                     ELSE "Could not click at coordinates", Undefined)>>]
    ELSE [ops |-> <<>>, log |-> <<Msg("Could not click element", r.selector)>>]

\* playClick (lines 139-180), preceded by a variant that runs the coordinate
\* fallback whatever the loop did.
playClickAlwaysFallback(r, pg, url, e) ==
  LET ready == ensurePageReady(pg, url, e)
      loop == ClickLoop(ClickSelectors(r), 1, e)
      fallback == ClickFallback(r, e)
  IN AndThen(ready,
       AndThen(waitForElement(r.selector, ready.page, url, e),
               Res(loop.ops \o fallback.ops, loop.log \o fallback.log, FALSE,
                   ready.page, url)))

playClick(r, pg, url, e) ==
  LET ready == ensurePageReady(pg, url, e)
      loop == ClickLoop(ClickSelectors(r), 1, e)
      fallback == IF loop.done THEN [ops |-> <<>>, log |-> <<>>] ELSE ClickFallback(r, e)
  IN AndThen(ready,
       AndThen(waitForElement(r.selector, ready.page, url, e),
               Res(loop.ops \o fallback.ops, loop.log \o fallback.log, FALSE,
                   ready.page, url)))

\* The candidate loop of playInput (lines 193-217).
RECURSIVE InputLoop(_, _, _, _)
InputLoop(selectors, k, r, e) ==
  IF k > Len(selectors)
    THEN [ops |-> <<>>, log |-> <<>>, done |-> FALSE]
    ELSE LET selector == selectors[k]
             rest == InputLoop(selectors, k + 1, r, e)
         IN IF selector \notin e.dom
              THEN [rest EXCEPT !.ops = <<Op("$", selector, FALSE)>> \o @]
              ELSE IF selector \in e.failing
                THEN [rest EXCEPT !.ops = <<Op("$", selector, TRUE),
                                           Op("focus", selector, FALSE)>> \o @]
                ELSE [ops |-> <<Op("$", selector, TRUE), Op("focus", selector, TRUE),
                               Op("keyboard.clear", selector, TRUE)>>
                              \o (IF Truthy(r.value)
                                    THEN <<OpVal("type", selector, r.value, TRUE)>>
                                    ELSE <<>>),
                      log |-> IF Truthy(r.value)
                                THEN <<Msg("Typed", selector)>> ELSE <<>>,
                      done |-> TRUE]

\* playInput (lines 183-222), preceded by a variant that falls back to the
\* record's coordinates as playClick does.
playInputFallback(r, pg, url, e) ==
  LET ready == ensurePageReady(pg, url, e)
      loop == InputLoop(NameSelectors(r), 1, r, e)
      fallback == IF loop.done THEN [ops |-> <<>>, log |-> <<>>] ELSE ClickFallback(r, e)
  IN AndThen(ready,
       AndThen(waitForElement(r.selector, ready.page, url, e),
               Res(loop.ops \o fallback.ops, loop.log \o fallback.log, FALSE,
                   ready.page, url)))

playInput(r, pg, url, e) ==
  LET ready == ensurePageReady(pg, url, e)
      loop == InputLoop(NameSelectors(r), 1, r, e)
      miss == IF loop.done THEN <<>> ELSE <<Msg("Could not type in element", r.selector)>>
  IN AndThen(ready,
       AndThen(waitForElement(r.selector, ready.page, url, e),
               Res(loop.ops, loop.log \o miss, FALSE, ready.page, url)))

\* The candidate loop of playChange (lines 234-255).
RECURSIVE ChangeLoop(_, _, _, _)
ChangeLoop(selectors, k, r, e) ==
  IF k > Len(selectors)
    THEN [ops |-> <<>>, log |-> <<>>, done |-> FALSE]
    ELSE LET selector == selectors[k]
             rest == ChangeLoop(selectors, k + 1, r, e)
         IN IF r.tagName = "SELECT"
              THEN IF selector \in e.dom /\ selector \notin e.failing
                     THEN [ops |-> <<OpVal("select", selector, r.value, TRUE)>>,
                           log |-> <<Msg("Selected", selector)>>,
                           done |-> TRUE]
                     ELSE [rest EXCEPT
                             !.ops = <<OpVal("select", selector, r.value, FALSE)>> \o @]
              ELSE IF e.unresponsive
                     THEN [rest EXCEPT !.ops = <<Op("evaluate", selector, FALSE)>> \o @]
                     ELSE [ops |-> <<Op("evaluate", selector, TRUE)>>
                                   \o (IF selector \in e.dom
                                         THEN <<OpVal("setValue", selector, r.value, TRUE),
                                                OpVal("dispatchEvent", selector, "change", TRUE)>>
                                         ELSE <<>>),
                           log |-> <<Msg("Changed value", selector)>>,
                           done |-> TRUE]

\* playChange (lines 225-260), preceded by a variant that sets the value
\* whatever the tag.
playChangeSetValue(r, pg, url, e) ==
  LET loop == ChangeLoop(NameSelectors(r), 1, [r EXCEPT !.tagName = "INPUT"], e)
  IN AndThen(waitForElement(r.selector, pg, url, e),
             Res(loop.ops, loop.log, ~loop.done, pg, url))

playChange(r, pg, url, e) ==
  LET loop == ChangeLoop(NameSelectors(r), 1, r, e)
  IN AndThen(waitForElement(r.selector, pg, url, e),
             Res(loop.ops, loop.log, ~loop.done, pg, url))

\* shouldBeChecked (line 276), preceded by a variant reading the checked field
\* alone.
ShouldBeCheckedFieldOnly(r) == r.checked

ShouldBeChecked(r) == r.checked \/ r.value = "true"

\* The candidate loop of playCheckbox (lines 272-287).
RECURSIVE CheckboxLoop(_, _, _, _)
CheckboxLoop(selectors, k, r, e) ==
  IF k > Len(selectors)
    THEN [ops |-> <<>>, log |-> <<>>, done |-> FALSE]
    ELSE LET selector == selectors[k]
             rest == CheckboxLoop(selectors, k + 1, r, e)
         IN IF selector \notin e.dom
              THEN [rest EXCEPT !.ops = <<Op("$eval", selector, FALSE)>> \o @]
              ELSE IF e.isChecked = ShouldBeChecked(r)
                THEN [ops |-> <<Op("$eval", selector, TRUE)>>, log |-> <<>>,
                      done |-> TRUE]
                ELSE IF selector \in e.failing
                  THEN [rest EXCEPT !.ops = <<Op("$eval", selector, TRUE),
                                             Op("click", selector, FALSE)>> \o @]
                  ELSE [ops |-> <<Op("$eval", selector, TRUE),
                                 Op("click", selector, TRUE)>>,
                        log |-> <<Msg(IF ShouldBeChecked(r) THEN "Checked"
                                                            ELSE "Unchecked", selector)>>,
                        done |-> TRUE]

\* playCheckbox (lines 263-292)
playCheckbox(r, pg, url, e) ==
  LET loop == CheckboxLoop(NameSelectors(r), 1, r, e)
  IN AndThen(waitForElement(r.selector, pg, url, e),
             Res(loop.ops, loop.log, ~loop.done, pg, url))

\* playRange (lines 295-311)
playRange(r, pg, url, e) ==
  AndThen(waitForElement(r.selector, pg, url, e),
    IF e.unresponsive
      THEN Res(<<Op("evaluate", r.selector, FALSE)>>, <<>>, TRUE, pg, url)
      ELSE Res(<<Op("evaluate", r.selector, TRUE)>>
                 \o (IF r.selector \in e.dom
                       THEN <<OpVal("setValue", r.selector, r.value, TRUE),
                              OpVal("dispatchEvent", r.selector, "input", TRUE),
                              OpVal("dispatchEvent", r.selector, "change", TRUE)>>
                       ELSE <<>>),
               <<Msg("Set range", r.selector)>>, FALSE, pg, url))

\* playSubmit (lines 314-328)
playSubmit(r, pg, url, e) ==
  AndThen(waitForElement(r.selector, pg, url, e),
    IF e.unresponsive
      THEN Res(<<Op("evaluate", r.selector, FALSE)>>, <<>>, TRUE, pg, url)
      ELSE Res(<<Op("evaluate", r.selector, TRUE)>>
                 \o (IF r.selector \in e.dom /\ e.isForm
                       THEN <<Op("submit", r.selector, TRUE)>>
                       ELSE <<>>),
               <<Msg("Submitted form", r.selector)>>, FALSE, pg, url))

\* The switch of playInteraction (lines 90-117)
Dispatch(r, pg, url, e) ==
  CASE r.type = "navigation" -> playNavigation(r, pg, url, e)
    [] r.type = "click" -> playClick(r, pg, url, e)
    [] r.type \in {"input", "text", "search"} -> playInput(r, pg, url, e)
    [] r.type \in {"change", "select-one"} -> playChange(r, pg, url, e)
    [] r.type = "submit" -> playSubmit(r, pg, url, e)
    [] r.type = "checkbox" -> playCheckbox(r, pg, url, e)
    [] r.type = "range" -> playRange(r, pg, url, e)
    [] OTHER -> Res(<<>>, <<Msg("Skipping unsupported interaction type", r.type)>>,
                    FALSE, pg, url)

\* The liveness probe of playInteraction (lines 68-75)
ProbePage(pg, url, e) ==
  IF ~e.stale
    THEN Res(<<Op("url", Undefined, TRUE)>>, <<>>, FALSE, pg, url)
    ELSE AndThen(Res(<<Op("url", Undefined, FALSE)>>,
                     <<Msg("Refreshing page reference due to detached frame", Undefined)>>,
                     FALSE, pg, url),
                 Reacquire(pg, url))

\* The navigation of playInteraction to the record's URL (lines 77-88),
\* preceded by a variant without the inner try.
NavigateIfNeededThrowing(r, pg, url, e) ==
  IF url # r.url /\ Truthy(r.url)
    THEN IF e.navOk
           THEN Res(<<Op("goto", r.url, TRUE)>>, <<Msg("Navigating to", r.url)>>,
                    FALSE, pg, r.url)
           ELSE Res(<<Op("goto", r.url, FALSE)>>, <<Msg("Navigating to", r.url)>>,
                    TRUE, pg, url)
    ELSE Res(<<>>, <<>>, FALSE, pg, url)

NavigateIfNeeded(r, pg, url, e) ==
  IF url # r.url /\ Truthy(r.url)
    THEN IF e.navOk
           THEN Res(<<Op("goto", r.url, TRUE)>>, <<Msg("Navigating to", r.url)>>,
                    FALSE, pg, r.url)
           ELSE Res(<<Op("goto", r.url, FALSE)>>,
                    <<Msg("Navigating to", r.url),
                      Msg("Navigation failed, continuing with current page", Undefined)>>,
                    FALSE, pg, url)
    ELSE Res(<<>>, <<>>, FALSE, pg, url)

\* The try block of playInteraction (lines 66-117)
PlayBody(r, e) ==
  IF ~recording.loaded
    THEN Res(<<>>, <<>>, TRUE, page, pageUrl)
    ELSE LET probe == ProbePage(page, pageUrl, e)
             nav == NavigateIfNeeded(r, probe.page, pageUrl, e)
         IN AndThen(Res(<<>>, <<Msg("Playing", r.type)>>, FALSE, page, pageUrl),
              AndThen(probe,
                AndThen(nav, Dispatch(r, probe.page, nav.url, e))))

\* playInteraction (lines 64-122): the body, and the catch that logs the
\* error and lets the caller continue.  escaped: an error left the call.
\* Preceded by a variant whose catch rethrows.
playInteractionRethrow(r, e) ==
  LET body == PlayBody(r, e)
  IN [page |-> body.page, url |-> body.url, ops |-> body.ops,
      log |-> body.log \o (IF body.threw
                             THEN <<Msg("Error playing interaction", Undefined)>>
                             ELSE <<>>),
      caught |-> body.threw, escaped |-> body.threw]

playInteraction(r, e) ==
  LET body == PlayBody(r, e)
  IN [page |-> body.page, url |-> body.url, ops |-> body.ops,
      log |-> body.log \o (IF body.threw
                             THEN <<Msg("Error playing interaction", Undefined)>>
                             ELSE <<>>),
      caught |-> body.threw, escaped |-> FALSE]

\* The environment records that matter for a record in the current state:
\* an outcome no call of the event reads is fixed.
Choice(relevant, fixed) == IF relevant THEN BOOLEAN ELSE {fixed}

EventSelectors(r) ==
  CASE r.type = "click" -> Range(ClickSelectors(r))
    [] r.type \in {"input", "text", "search", "change", "select-one", "checkbox"} ->
         Range(NameSelectors(r))
    [] r.type \in {"submit", "range"} -> {r.selector} \ {Undefined, JsNull}
    [] OTHER -> {}

\* sels: the selectors of the event that may match an element of the page.
Envs(r, sels) ==
  LET needsNav == pageUrl # r.url /\ Truthy(r.url)
      evaluates == r.type \in {"click", "input", "text", "search", "submit", "range"}
                   \/ (r.type \in {"change", "select-one"} /\ r.tagName # "SELECT")
  IN { [stale |-> st, unresponsive |-> un, navOk |-> n1, navOk2 |-> n2,
        dom |-> {s \in sels : f[s] # "absent"},
        failing |-> {s \in sels : f[s] = "failing"},
        mouseOk |-> mo, isChecked |-> ic, isForm |-> fo] :
       st \in Choice(browser = "open", TRUE),
       un \in Choice(evaluates /\ browser = "open", FALSE),
       n1 \in Choice(needsNav /\ browser = "open", FALSE),
       n2 \in Choice(needsNav /\ r.type = "navigation" /\ browser = "open", FALSE),
       f \in IF browser = "open"
                THEN [sels -> {"absent", "present", "failing"}]
                ELSE [sels -> {"absent"}],
       mo \in Choice(r.type = "click" /\ r.coordinates # <<>> /\ browser = "open",
                     FALSE),
       ic \in Choice(r.type = "checkbox" /\ browser = "open", FALSE),
       fo \in Choice(r.type = "submit" /\ browser = "open", FALSE) }

----------------------------------------------------------------------------
(* Recordings played by the controller *)

UrlA == "https://a.example/"
UrlB == "https://b.example/"

Nav(url, ts) ==
  [BlankInteraction EXCEPT !.type = "navigation", !.url = url, !.timestamp = ts]

\* Records of the kinds the controller dispatches, with equal, increasing,
\* decreasing and missing (0) timestamps and a missing url among them.
Records ==
  { Nav(UrlA, 1000),
    Nav(UrlB, 1500),
    [BlankInteraction EXCEPT !.type = "click", !.url = UrlA, !.timestamp = 1020,
       !.selector = "#go", !.id = "go", !.className = <<"btn">>,
       !.tagName = "BUTTON", !.coordinates = <<10, 20>>],
    [BlankInteraction EXCEPT !.type = "range", !.timestamp = 1500,
       !.selector = "#vol", !.value = "7"],
    [BlankInteraction EXCEPT !.type = "scroll", !.url = UrlB, !.timestamp = 0] }

RECURSIVE SeqsUpTo(_, _)
SeqsUpTo(S, n) ==
  IF n = 0 THEN {<<>>}
  ELSE LET shorter == SeqsUpTo(S, n - 1)
       IN shorter \cup {Append(q, x) : q \in shorter, x \in S}

\* The files loadRecording may read: totalInteractions as written by the
\* recorder, or off by one (a hand-edited or truncated file).
Recordings ==
  { [totalInteractions |-> Len(q) + d, interactions |-> q, loaded |-> TRUE] :
      q \in SeqsUpTo(Records, MaxLen), d \in {0} }

Speeds == {Rat(1, 1), Rat(2, 1)}

----------------------------------------------------------------------------
(* Operations of InteractionPlayback *)

\* constructor (lines 8-13)
Init ==
  /\ browser = "null"
  /\ page = 0
  /\ pages = <<>>
  /\ playbackSpeed = DefaultSpeed
  /\ recording = NoRecording
  /\ pageUrl = BlankUrl
  /\ dom = {}
  /\ pc = "idle"
  /\ i = 0
  /\ previousTimestamp = 0
  /\ delayArgs = NoArgs
  /\ delay = NoDelay
  /\ runs = 0
  /\ outcome = "none"
  /\ dispatched = <<>>
  /\ waits = <<>>
  /\ failed = {}
  /\ lastOps = <<>>
  /\ console = <<>>
  /\ caught = FALSE
  /\ current = NoInteraction
  /\ element = NoElement
  /\ loadLog = <<>>
  /\ startLog = <<>>
  /\ sigint = "none"
  /\ entry = NoEntry
  /\ recorded = <<>>
  /\ pageBuffer = <<>>
  /\ drain = NoDrain
  /\ savedFile = NoFile
  /\ captured = <<>>
  /\ recorderPc = "new"
  /\ inFlight = {}

\* A message of loadRecording or startPlayback with the number it prints
\* (0 when it prints none).
Note(m, n) == [msg |-> m, n |-> n]

\* The messages of loadRecording (lines 23-25).
LoadMessages(file) ==
  <<Note("Loaded recording", 0),
    Note("Total interactions", file.totalInteractions),
    Note("Duration", 0)>>

\* loadRecording (lines 16-26) of an existing file
LoadRecording(files) ==
  /\ pc = "idle"
  /\ ~recording.loaded
  /\ \E file \in files : /\ recording' = file
                         /\ loadLog' = LoadMessages(file)
  /\ UNCHANGED <<recorderVars, inFlight, browser, page, pages, playbackSpeed, pageVars, loopVars,
                 delayVars, eventVars, startLog, sigint>>

\* initialize (lines 29-49): launch, then newPage
Initialize ==
  /\ pc = "idle"
  /\ browser = "null"
  /\ browser' = "open"
  /\ pages' = <<1, 2>>
  /\ page' = 2
  /\ pageUrl' = BlankUrl
  /\ UNCHANGED <<recorderVars, inFlight, playbackSpeed, recording, dom, loopVars, delayVars, eventVars,
                 logVars, sigint>>

\* setPlaybackSpeed (lines 52-55)
SetPlaybackSpeed(speeds) ==
  /\ pc = "idle"
  /\ runs = 0
  /\ \E speed \in speeds : playbackSpeed' = speed
  /\ UNCHANGED <<recorderVars, inFlight, browser, page, pages, recording, pageVars, loopVars, delayVars,
                 eventVars, logVars, sigint>>

\* stop (lines 387-392)
Stop ==
  /\ pc = "idle"
  /\ browser # "null"
  /\ browser' = "closed"
  /\ pages' = <<>>
  /\ UNCHANGED <<recorderVars, inFlight, page, playbackSpeed, recording, pageVars, loopVars, delayVars,
                 eventVars, logVars, sigint>>

----------------------------------------------------------------------------
(* Playback Controller: startPlayback (lines 353-384) *)

Interactions == recording.interactions
\* this.recording.interactions[i], preceded by a variant reading from the end.
InteractionAtReversed(k) == Interactions[Len(Interactions) - k]
InteractionAt(k) == Interactions[k + 1]

\* let previousTimestamp = null (line 365), preceded by a variant keeping the
\* value of the run before.
KeepPreviousTimestamp == previousTimestamp
InitialPreviousTimestamp == 0

\* let i = 0 (line 367), preceded by a variant going on from the index the
\* run before ended on.
KeepIndex == i
InitialIndex == 0

\* The messages of startPlayback before its loop (lines 362-363; the speed
\* printed with the total is left out) and after it (line 383).
StartMessages ==
  <<Note("Starting playback of", recording.totalInteractions),
    Note("Press Ctrl+C to stop playback", 0)>>
CompletedMessage == Note("Playback completed successfully", 0)

\* The precondition checks (lines 354-360): the error raised, or "none".
\* Preceded by a variant without the browser check.
PreconditionNoBrowserCheck ==
  IF ~recording.loaded THEN "No recording loaded" ELSE "none"

Precondition ==
  IF ~recording.loaded THEN "No recording loaded"
  ELSE IF browser = "null" THEN "Browser not initialized"
  ELSE "none"

\* A call of startPlayback, up to the loop.
StartPlayback ==
  /\ pc = "idle"
  /\ runs < MaxRuns
  /\ runs' = runs + 1
  /\ dispatched' = <<>>
  /\ waits' = <<>>
  /\ failed' = {}
  /\ lastOps' = <<>>
  /\ console' = <<>>
  /\ caught' = FALSE
  /\ current' = NoInteraction
  /\ element' = NoElement
  /\ entry' = NoEntry
  /\ dom' = {}
  /\ IF Precondition # "none"
       THEN /\ outcome' = Precondition
            /\ pc' = "idle"
            /\ startLog' = <<>>
            /\ UNCHANGED <<i, previousTimestamp>>
       ELSE /\ outcome' = "running"
            /\ pc' = "delay"
            /\ startLog' = StartMessages
            /\ i' = InitialIndex
            /\ previousTimestamp' = InitialPreviousTimestamp
  /\ UNCHANGED <<recorderVars, inFlight, instanceVars, pageUrl, delayVars, loadLog, sigint>>

\* The time waited, with its progress message, for a computed delay
\* (lines 373-376).
Waited(d) == IF RatLT(RatOfInt(SignificantMs), d) THEN d ELSE NoWait

\* One loop iteration up to the call of playInteraction (lines 367-377).
ApplyDelay ==
  /\ pc = "delay"
  /\ i < Len(Interactions)
  /\ LET interaction == InteractionAt(i)
     IN IF previousTimestamp # 0 /\ interaction.timestamp # 0
          THEN LET d == calculateDelay(previousTimestamp, interaction.timestamp,
                                       playbackSpeed)
               IN /\ delayArgs' = <<previousTimestamp, interaction.timestamp,
                                    playbackSpeed>>
                  /\ delay' = d
                  /\ waits' = Append(waits, Waited(d))
          ELSE /\ waits' = Append(waits, NoWait)
               /\ UNCHANGED delayVars
  /\ pc' = "play"
  /\ UNCHANGED <<recorderVars, inFlight, instanceVars, pageVars, i, previousTimestamp, runs, outcome,
                 dispatched, failed, eventVars, logVars, sigint>>

\* The selectors that may match an element of the page when anySelector is
\* false: the record's precomputed selector alone.
RecordedSelector(r) == EventSelectors(r) \cap {r.selector}

\* el.checked of the event's element after the operations of the event: every
\* click that succeeded toggled it.
RECURSIVE CheckedAfter(_, _)
CheckedAfter(ops, isChecked) ==
  IF ops = <<>> THEN isChecked
  ELSE CheckedAfter(Tail(ops),
                    IF Head(ops).op = "click" /\ Head(ops).ok
                      THEN ~isChecked ELSE isChecked)

\* this.recording after playInteraction of the record at index k: neither
\* playInteraction nor a handler assigns to this.recording or to a field of
\* the record.  Preceded by a variant marking the record as played.
RecordingAfterMarked(rec, k) ==
  [rec EXCEPT !.interactions[k + 1].checked = TRUE]

RecordingAfter(rec, k) == rec

\* await this.playInteraction(interaction, i); previousTimestamp =
\* interaction.timestamp; i++ (lines 379-381)
PlayInteraction(anySelector) ==
  /\ pc = "play"
  /\ LET interaction == InteractionAt(i)
         sels == IF anySelector THEN EventSelectors(interaction)
                                ELSE RecordedSelector(interaction)
     IN \E e \in Envs(interaction, sels) :
          LET res == playInteraction(interaction, e)
          IN /\ page' = res.page
             /\ pageUrl' = res.url
             /\ dom' = e.dom
             /\ lastOps' = res.ops
             /\ console' = res.log
             /\ caught' = res.caught
             /\ current' = interaction
             /\ element' =
                  [before |-> e.isChecked,
                   after |-> IF interaction.type = "checkbox"
                               THEN CheckedAfter(res.ops, e.isChecked)
                               ELSE e.isChecked,
                   isForm |-> e.isForm]
             /\ entry' = [page |-> page, url |-> pageUrl]
             /\ recording' = RecordingAfter(recording, i)
             /\ dispatched' = Append(dispatched, i)
             /\ failed' = IF res.caught THEN failed \cup {i} ELSE failed
             /\ IF res.escaped
                  THEN /\ outcome' = "threw"
                       /\ pc' = "idle"
                       /\ UNCHANGED <<i, previousTimestamp>>
                  ELSE /\ previousTimestamp' = interaction.timestamp
                       /\ i' = i + 1
                       /\ pc' = "delay"
                       /\ UNCHANGED outcome
  /\ UNCHANGED <<recorderVars, inFlight, browser, pages, playbackSpeed, delayVars, runs, waits, logVars,
                 sigint>>

\* The loop condition fails: the completion message (line 383), recorded
\* as the outcome.
Complete ==
  /\ pc = "delay"
  /\ i >= Len(Interactions)
  /\ outcome' = "completed"
  /\ startLog' = Append(startLog, CompletedMessage)
  /\ pc' = "idle"
  /\ UNCHANGED <<recorderVars, inFlight, instanceVars, pageVars, i, previousTimestamp, delayVars, runs,
                 dispatched, waits, failed, eventVars, loadLog, sigint>>

Next ==
  \/ LoadRecording(Recordings)
  \/ Initialize
  \/ SetPlaybackSpeed(Speeds)
  \/ Stop
  \/ StartPlayback
  \/ ApplyDelay
  \/ PlayInteraction(FALSE)
  \/ Complete

Spec == Init /\ [][Next]_vars

----------------------------------------------------------------------------
(* The Element Resolver: recordings of one click or input event whose      *)
(* element fields are present or absent in every combination, played       *)
(* against pages where any of the candidate selectors may match.           *)

ElementRecords ==
  { [BlankInteraction EXCEPT !.type = ty, !.timestamp = 1000, !.selector = sel,
       !.id = id, !.className = cn, !.name = nm, !.tagName = tag,
       !.coordinates = xy, !.value = "Ann"] :
      ty \in {"click", "input"},
      sel \in {Undefined, "#go", "form > .field"},
      id \in {Undefined, JsNull, "go"},
      cn \in {<<>>, <<"btn", "primary">>},
      nm \in {Undefined, "q"},
      tag \in {Undefined, "BUTTON"},
      xy \in {<<>>, <<10, 20>>} }

\* Fields no handler of the kind reads are left absent, but for the
\* coordinates of a typing record.
ElementRecordings ==
  { [totalInteractions |-> 1, interactions |-> <<r>>, loaded |-> TRUE] :
      r \in { x \in ElementRecords :
                /\ x.type = "click" => x.name = Undefined
                /\ x.type = "input" => (x.className = <<>> /\ x.tagName = Undefined) } }

NextResolver ==
  \/ LoadRecording(ElementRecordings)
  \/ Initialize
  \/ Stop
  \/ StartPlayback
  \/ ApplyDelay
  \/ PlayInteraction(TRUE)
  \/ Complete

SpecResolver == Init /\ [][NextResolver]_vars

----------------------------------------------------------------------------
(* The Action Dispatcher: recordings of one change, select-one, submit or   *)
(* checkbox event, played against pages where the element is absent,       *)
(* present, or present with a failing action.                              *)

DispatchRecords ==
  { [BlankInteraction EXCEPT !.type = ty, !.timestamp = 1000,
       !.selector = "#country", !.id = id, !.tagName = tag, !.value = "USA"] :
      ty \in {"change", "select-one"}, id \in {Undefined, "country"},
      tag \in {"SELECT", "INPUT"} }
  \cup
  { [BlankInteraction EXCEPT !.type = "submit", !.timestamp = 1000,
       !.selector = "#signup", !.tagName = "FORM"] }
  \cup
  { [BlankInteraction EXCEPT !.type = "checkbox", !.timestamp = 1000,
       !.selector = "#agree", !.id = id, !.tagName = "INPUT",
       !.checked = ch, !.value = v] :
      id \in {Undefined, "agree"}, ch \in BOOLEAN, v \in {"on", "true"} }

DispatchRecordings ==
  { [totalInteractions |-> 1, interactions |-> <<r>>, loaded |-> TRUE] :
      r \in DispatchRecords }

NextDispatcher ==
  \/ LoadRecording(DispatchRecordings)
  \/ Initialize
  \/ Stop
  \/ StartPlayback
  \/ ApplyDelay
  \/ PlayInteraction(TRUE)
  \/ Complete

SpecDispatcher == Init /\ [][NextDispatcher]_vars

----------------------------------------------------------------------------
(* Candidate selectors: recordings of one event of an element-targeted      *)
(* kind whose record carries a selector, an id, two classes, a name and a   *)
(* tag, played against pages where any of the candidates may match.         *)

CandidateRecords ==
  { [BlankInteraction EXCEPT !.type = ty, !.timestamp = 1000,
       !.selector = "form > .field", !.id = "f",
       !.className = <<"btn", "primary">>, !.name = "q", !.tagName = tag,
       !.value = "7", !.coordinates = <<10, 20>>] :
      ty \in {"click", "input", "text", "search", "change", "select-one",
              "checkbox", "range", "submit"},
      tag \in {"INPUT", "SELECT"} }

CandidateRecordings ==
  { [totalInteractions |-> 1, interactions |-> <<r>>, loaded |-> TRUE] :
      r \in CandidateRecords }

NextCandidates ==
  \/ LoadRecording(CandidateRecordings)
  \/ Initialize
  \/ Stop
  \/ StartPlayback
  \/ ApplyDelay
  \/ PlayInteraction(TRUE)
  \/ Complete

SpecCandidates == Init /\ [][NextCandidates]_vars

----------------------------------------------------------------------------
(* Scenarios: fixed recordings played against any page, in a browser where  *)
(* further pages (popups, new tabs) may open at any time.                   *)

\* navigation(url=A), click(selector="#go", coordinates={x:10,y:20}),
\* input(selector="#name", value="Ann")
Scenario1 ==
  << Nav(UrlA, 1000),
     [BlankInteraction EXCEPT !.type = "click", !.timestamp = 2000,
        !.selector = "#go", !.coordinates = <<10, 20>>],
     [BlankInteraction EXCEPT !.type = "input", !.timestamp = 3000,
        !.selector = "#name", !.value = "Ann"] >>

\* a change event on a non-SELECT tag with value="USA"
Scenario3 ==
  << [BlankInteraction EXCEPT !.type = "change", !.timestamp = 1000,
        !.url = UrlA, !.selector = "#country", !.tagName = "INPUT",
        !.value = "USA"] >>

ScenarioRecordings ==
  { [totalInteractions |-> Len(q), interactions |-> q, loaded |-> TRUE] :
      q \in {Scenario1, Scenario3} }

\* The page opens a popup or a new tab: one more entry at the end of
\* browser.pages().
OpenPage ==
  /\ browser = "open"
  /\ Len(pages) < MaxPages
  /\ pages' = Append(pages, Len(pages) + 1)
  /\ UNCHANGED <<recorderVars, inFlight, browser, page, playbackSpeed, recording, pageVars,
                 loopVars, delayVars, eventVars, logVars, sigint>>

NextScenario ==
  \/ LoadRecording(ScenarioRecordings)
  \/ Initialize
  \/ OpenPage
  \/ Stop
  \/ StartPlayback
  \/ ApplyDelay
  \/ PlayInteraction(FALSE)
  \/ Complete

SpecScenario == Init /\ [][NextScenario]_vars

----------------------------------------------------------------------------
(* The loop of startPlayback step by step: the call of playInteraction, the *)
(* browser operations it awaits one after the other, its return, and the    *)
(* continuation of the loop after the await of line 379.  pc is "await"     *)
(* while the loop waits for the call.                                       *)

\* playInteraction(interaction, i) is called (line 379): the call runs up to
\* its first browser operation.  What the browser will answer is fixed here.
BeginInteraction ==
  /\ pc = "play"
  /\ LET interaction == InteractionAt(i)
     IN \E e \in Envs(interaction, RecordedSelector(interaction)) :
          LET res == playInteraction(interaction, e)
          IN /\ inFlight' = inFlight \cup
                  {[index |-> i, todo |-> res.ops, log |-> res.log,
                    caught |-> res.caught,
                    element |->
                      [before |-> e.isChecked,
                       after |-> IF interaction.type = "checkbox"
                                   THEN CheckedAfter(res.ops, e.isChecked)
                                   ELSE e.isChecked,
                       isForm |-> e.isForm]]}
             /\ dom' = e.dom
             /\ current' = interaction
  /\ entry' = [page |-> page, url |-> pageUrl]
  /\ lastOps' = <<>>
  /\ console' = <<>>
  /\ caught' = FALSE
  /\ dispatched' = Append(dispatched, i)
  /\ pc' = "await"
  /\ UNCHANGED <<recorderVars, instanceVars, pageUrl, i, previousTimestamp, runs,
                 outcome, waits, failed, delayVars, element, logVars, sigint>>

\* An awaited browser operation of a call in flight finishes or fails: a
\* goto that succeeds moves the page, a read of the page list replaces
\* this.page (line 73).
BrowserAction ==
  \E f \in inFlight :
    /\ f.todo # <<>>
    /\ LET o == Head(f.todo)
       IN /\ lastOps' = Append(lastOps, o)
          /\ pageUrl' = IF o.op = "goto" /\ o.ok THEN o.sel ELSE pageUrl
          /\ page' = IF o.op = "pages" /\ o.ok THEN Last(pages) ELSE page
    /\ inFlight' = (inFlight \ {f}) \cup {[f EXCEPT !.todo = Tail(@)]}
    /\ UNCHANGED <<recorderVars, browser, pages, playbackSpeed, recording, dom,
                   loopVars, delayVars, console, caught, current, element, entry,
                   logVars, sigint>>

\* A call in flight has made its last browser operation: its messages are
\* out, an error is caught (lines 118-121), and the call returns.
FinishInteraction ==
  \E f \in inFlight :
    /\ f.todo = <<>>
    /\ inFlight' = inFlight \ {f}
    /\ console' = f.log
    /\ caught' = f.caught
    /\ element' = f.element
    /\ failed' = IF f.caught THEN failed \cup {f.index} ELSE failed
    /\ recording' = RecordingAfter(recording, f.index)
    /\ UNCHANGED <<recorderVars, browser, page, pages, playbackSpeed, pageVars, pc, i,
                   previousTimestamp, runs, outcome, dispatched, waits, delayVars,
                   lastOps, current, entry, logVars, sigint>>

\* await this.playInteraction(interaction, i) (line 379): the loop goes on
\* when the call of event k has returned.  Preceded by a variant that does
\* not wait.
NotAwaited(k) == TRUE

Awaited(k) == \A f \in inFlight : f.index # k

\* previousTimestamp = interaction.timestamp; i++ (lines 380, 367)
ResumeLoop ==
  /\ pc = "await"
  /\ Awaited(i)
  /\ previousTimestamp' = InteractionAt(i).timestamp
  /\ i' = i + 1
  /\ pc' = "delay"
  /\ UNCHANGED <<recorderVars, inFlight, instanceVars, pageVars, runs, outcome,
                 dispatched, waits, failed, delayVars, eventVars, logVars, sigint>>

NextSequential ==
  \/ LoadRecording(ScenarioRecordings)
  \/ Initialize
  \/ Stop
  \/ StartPlayback
  \/ ApplyDelay
  \/ BeginInteraction
  \/ BrowserAction
  \/ FinishInteraction
  \/ ResumeLoop
  \/ Complete

SpecSequential == Init /\ [][NextSequential]_vars

----------------------------------------------------------------------------
(* The recorder (src/src/index.js).  Interactions are captured in two ways: *)
(* listeners injected into every document push onto that document's         *)
(* window.recordedInteractions, which a timer callback of the host collects  *)
(* once a second, and the host's framenavigated handler records navigations *)
(* straight into this.interactions.  A record is                            *)
(*   type       the kind of interaction                                     *)
(*   timestamp  Date.now(), modelled by a clock that advances with every    *)
(*              capture: it gives the capture order                         *)
(*   sessionId  set by the host's recordInteraction only (line 194)         *)
(*   pageTitle  set by the drain on what it collected (lines 176-181)       *)

SessionId == "session"
PageTitle == "title"

PageTypes == {"click", "input"}

Now == Len(captured) + 1

\* The record built by the host's recordInteraction (lines 191-196).
HostInteraction(type) ==
  [type |-> type, timestamp |-> Now, sessionId |-> SessionId,
   pageTitle |-> Undefined]

\* The record built by the injected recordInteraction (lines 54-60).
PageInteraction(type) ==
  [type |-> type, timestamp |-> Now, sessionId |-> Undefined,
   pageTitle |-> Undefined]

\* The object saveInteractions writes (lines 214-220); sessionId and the two
\* times are left out.
SavedFileCountingDrained(xs) ==
  [totalInteractions |-> Len(SelectSeq(xs, LAMBDA x : x.sessionId = Undefined)),
   interactions |-> xs, saved |-> TRUE]

SavedFile(xs) ==
  [totalInteractions |-> Len(xs), interactions |-> xs, saved |-> TRUE]

\* interaction.pageTitle = title on the objects the drain collected, which
\* are the objects held by this.interactions (lines 177-181).
WithTitle(xs, taken) ==
  [k \in DOMAIN xs |->
     IF xs[k] \in Range(taken) THEN [xs[k] EXCEPT !.pageTitle = PageTitle]
                               ELSE xs[k]]

\* recorder.recordInteraction(type, data), called on the instance (test.js
\* line 33): this.interactions.push(interaction).
RecordInteraction ==
  /\ recorderPc \in {"new", "recording"}
  /\ Len(captured) < MaxCaptures
  /\ recorded' = Append(recorded, HostInteraction("test"))
  /\ captured' = Append(captured, HostInteraction("test"))
  /\ UNCHANGED <<pageBuffer, drain, savedFile, recorderPc, playbackVars>>

\* initialize (lines 20-44): the listeners and the timer are set up, then
\* page.goto(url) loads the first document, for which framenavigated fires.
RecorderInitialize ==
  /\ recorderPc = "new"
  /\ Len(captured) < MaxCaptures
  /\ recorderPc' = "recording"
  /\ recorded' = Append(recorded, HostInteraction("navigation"))
  /\ captured' = Append(captured, HostInteraction("navigation"))
  /\ pageBuffer' = <<>>
  /\ UNCHANGED <<drain, savedFile, playbackVars>>

\* A listener of the document (click, input, change, submit; lines 65-118)
\* pushes onto window.recordedInteractions.
Capture ==
  /\ recorderPc = "recording"
  /\ Len(captured) < MaxCaptures
  /\ \E type \in PageTypes :
       /\ pageBuffer' = Append(pageBuffer, PageInteraction(type))
       /\ captured' = Append(captured, PageInteraction(type))
  /\ UNCHANGED <<recorded, drain, savedFile, recorderPc, playbackVars>>

\* framenavigated on the main frame (lines 153-161).  A navigation to a new
\* document starts with the empty window.recordedInteractions of line 51; a
\* navigation within the document (fragment, history API) keeps the array.
\* The browser's messages reach the host in order, so the handler does not
\* run between a drain's evaluate result and its push.
FrameNavigated ==
  /\ recorderPc = "recording"
  /\ ~drain.active
  /\ Len(captured) < MaxCaptures
  /\ recorded' = Append(recorded, HostInteraction("navigation"))
  /\ captured' = Append(captured, HostInteraction("navigation"))
  /\ \E newDocument \in BOOLEAN :
       pageBuffer' = IF newDocument THEN <<>> ELSE pageBuffer
  /\ UNCHANGED <<drain, savedFile, recorderPc, playbackVars>>

\* The timer callback, first part (lines 167-171): the function evaluated in
\* the page returns the array and replaces it by an empty one.
DrainEvaluate ==
  /\ recorderPc = "recording"
  /\ ~drain.active
  /\ drain' = [active |-> TRUE, pushed |-> FALSE, taken |-> pageBuffer]
  /\ pageBuffer' = <<>>
  /\ UNCHANGED <<recorded, savedFile, captured, recorderPc, playbackVars>>

\* The timer callback once the evaluate has resolved (line 174):
\* this.interactions.push(...pageInteractions).
DrainPush ==
  /\ recorderPc \in {"recording", "closing"}
  /\ drain.active /\ ~drain.pushed
  /\ recorded' = recorded \o drain.taken
  /\ drain' = [drain EXCEPT !.pushed = TRUE]
  /\ UNCHANGED <<pageBuffer, savedFile, captured, recorderPc, playbackVars>>

\* The timer callback once page.title() has resolved (lines 177-182), or has
\* thrown into the catch of line 183.
DrainTitle ==
  /\ recorderPc \in {"recording", "closing"}
  /\ drain.active /\ drain.pushed
  /\ \E ok \in BOOLEAN :
       recorded' = IF ok THEN WithTitle(recorded, drain.taken) ELSE recorded
  /\ drain' = NoDrain
  /\ UNCHANGED <<pageBuffer, savedFile, captured, recorderPc, playbackVars>>

\* recorder.saveInteractions(), called on the instance (test.js line 47).
SaveInteractions ==
  /\ recorderPc \in {"new", "recording"}
  /\ savedFile' = SavedFile(recorded)
  /\ UNCHANGED <<recorded, pageBuffer, drain, captured, recorderPc, playbackVars>>

\* SIGINT (lines 246-250): saveInteractions runs to its end at once, then
\* the handler waits for browser.close().
RecorderInterrupt ==
  /\ recorderPc = "recording"
  /\ savedFile' = SavedFile(recorded)
  /\ recorderPc' = "closing"
  /\ UNCHANGED <<recorded, pageBuffer, drain, captured, playbackVars>>

\* process.exit(0) (line 250).
RecorderExit ==
  /\ recorderPc = "closing"
  /\ recorderPc' = "exited"
  /\ UNCHANGED <<recorded, pageBuffer, drain, savedFile, captured, playbackVars>>

NextRecorder ==
  \/ RecordInteraction
  \/ RecorderInitialize
  \/ Capture
  \/ FrameNavigated
  \/ DrainEvaluate
  \/ DrainPush
  \/ DrainTitle
  \/ SaveInteractions
  \/ RecorderInterrupt
  \/ RecorderExit

SpecRecorder == Init /\ [][NextRecorder]_vars

----------------------------------------------------------------------------
(* main (lines 396-461): one instance taken through loadRecording,          *)
(* initialize, setPlaybackSpeed when --speed is not 1, startPlayback and    *)
(* stop, with the SIGINT handler registered before the recording is loaded. *)
(* The handler calls stop(), which starts browser.close() at once, and      *)
(* calls process.exit when the close has finished; until then the other     *)
(* pending callbacks of the process go on running.  The signal is taken to  *)
(* arrive once the browser is up.                                          *)

\* The files main may be given: totalInteractions as written by the recorder,
\* or one more than the events the file holds (a hand-edited or truncated
\* file).
MainRecordings ==
  { [totalInteractions |-> Len(q) + d, interactions |-> q, loaded |-> TRUE] :
      q \in SeqsUpTo(Records, MaxLen), d \in {0, 1} }

\* process.exit has not been called.
Running == sigint # "exited"

MainLoadRecording == Running /\ LoadRecording(MainRecordings)
MainInitialize == Running /\ recording.loaded /\ Initialize
\* if (speed !== 1) playback.setPlaybackSpeed(speed)   (lines 446-448)
MainSetPlaybackSpeed ==
  /\ Running
  /\ browser # "null"
  /\ playbackSpeed = DefaultSpeed
  /\ SetPlaybackSpeed(Speeds \ {DefaultSpeed})
MainStartPlayback == Running /\ browser # "null" /\ runs = 0 /\ StartPlayback
MainApplyDelay == Running /\ ApplyDelay
MainPlayInteraction == Running /\ PlayInteraction(FALSE)
MainComplete == Running /\ Complete
\* await playback.stop() after startPlayback has returned (line 454)
MainStop == Running /\ outcome = "completed" /\ browser = "open" /\ Stop

\* SIGINT: the handler logs, and stop() calls browser.close() (lines 431-433,
\* 387-389); from here on the calls on the browser fail.
Interrupt ==
  /\ sigint = "none"
  /\ browser = "open"
  /\ sigint' = "closing"
  /\ browser' = "closed"
  /\ pages' = <<>>
  /\ UNCHANGED <<recorderVars, inFlight, page, playbackSpeed, recording, pageVars, loopVars, delayVars,
                 eventVars, logVars>>

\* browser.close() has finished; process.exit(0) (line 434)
Exit ==
  /\ sigint = "closing"
  /\ sigint' = "exited"
  /\ UNCHANGED <<recorderVars, inFlight, instanceVars, pageVars, loopVars, delayVars, eventVars, logVars>>

NextMain ==
  \/ MainLoadRecording
  \/ MainInitialize
  \/ MainSetPlaybackSpeed
  \/ MainStartPlayback
  \/ MainApplyDelay
  \/ MainPlayInteraction
  \/ MainComplete
  \/ MainStop
  \/ Interrupt
  \/ Exit

SpecMain == Init /\ [][NextMain]_vars

----------------------------------------------------------------------------
(* The Timing Scheduler on its own: calculateDelay called on an instance    *)
(* at any of the speeds, with any two of the timestamps.                   *)

CalculateDelayCall ==
  /\ pc = "idle"
  /\ \E previousTs \in DelayTimestamps, currentTs \in DelayTimestamps :
       /\ delayArgs' = <<previousTs, currentTs, playbackSpeed>>
       /\ delay' = calculateDelay(previousTs, currentTs, playbackSpeed)
  /\ UNCHANGED <<recorderVars, inFlight, instanceVars, pageVars, loopVars, eventVars, logVars, sigint>>

NextDelay ==
  \/ SetPlaybackSpeed(AllSpeeds)
  \/ CalculateDelayCall

SpecDelay == Init /\ [][NextDelay]_vars

\* The same with the speeds any caller of the class may give.
NextSpeed ==
  \/ SetPlaybackSpeed(GivenSpeeds)
  \/ CalculateDelayCall

SpecSpeed == Init /\ [][NextSpeed]_vars

----------------------------------------------------------------------------
(* Properties of the Timing Scheduler *)

IsPositive(q) == q.num > 0 /\ q.den > 0
IsFloor(d) == d = [num |-> 50, den |-> 1]
\* The arguments of the last calculateDelay call.
CalledPrevious == delayArgs[1]
CalledCurrent == delayArgs[2]
CalledSpeed == delayArgs[3]
\* d * speed, compared with the raw interval without dividing.
TimesSpeedGE(d, speed, raw) == d.num * speed.num >= raw * d.den * speed.den
TimesSpeedEQ(d, speed, raw) == d.num * speed.num = raw * d.den * speed.den

\* C4 (the delay formula): at every speed > 0 the delay returned for
\* (prev, curr) is the larger of (curr - prev) / speed and 50 ms: it is at
\* least both and equal to one of them; timestamps 1000 and 1500 at speed 2
\* give 250 ms.
C4_DelayIsMaxOfScaledAndFloor ==
  (delayArgs # NoArgs /\ IsPositive(CalledSpeed)) =>
     LET raw == CalledCurrent - CalledPrevious
     IN /\ RatLE(RatOfInt(50), delay)
        /\ TimesSpeedGE(delay, CalledSpeed, raw)
        /\ delay = RatOfInt(50) \/ TimesSpeedEQ(delay, CalledSpeed, raw)
        /\ (CalledPrevious = 1000 /\ CalledCurrent = 1500
              /\ CalledSpeed = [num |-> 2, den |-> 1])
             => delay = [num |-> 250, den |-> 1]

\* calculateDelay(1000, 1500) at speed 2 returned 250.
C4_Witness ==
  /\ delayArgs = <<1000, 1500, [num |-> 2, den |-> 1]>>
  /\ delay = [num |-> 250, den |-> 1]
  /\ playbackSpeed = [num |-> 2, den |-> 1]

\* C5 (speed monotonicity): for the timestamps of the last call, the delay at
\* any speed that is at least the speed of the call is at most the delay
\* returned; equal timestamps and negative intervals give exactly the 50 ms
\* floor.
C5_SpeedMonotone ==
  (delayArgs # NoArgs /\ IsPositive(CalledSpeed)) =>
     /\ \A faster \in AllSpeeds :
          RatLE(CalledSpeed, faster) =>
            RatLE(calculateDelay(CalledPrevious, CalledCurrent, faster), delay)
     /\ CalledCurrent <= CalledPrevious => IsFloor(delay)

\* A delay above the floor that a higher speed makes strictly shorter.
C5_Witness ==
  /\ delayArgs = <<1000, 1500, [num |-> 1, den |-> 2]>>
  /\ delay = [num |-> 1000, den |-> 1]
  /\ RatLT(calculateDelay(1000, 1500, [num |-> 3, den |-> 4]), delay)

\* C23 (the speed is positive), as claimed: in every state the playback speed
\* is a number greater than 0, whatever setPlaybackSpeed was called with.
C23_SpeedPositive == IsPositive(playbackSpeed)

----------------------------------------------------------------------------
(* Properties of the Playback Controller *)

PreconditionErrors == {"No recording loaded", "Browser not initialized"}
\* The stored record at 0-based index k.
Stored(k) == recording.interactions[k + 1]

\* C1 (order preservation): in every state of a run the indices handed to
\* playInteraction so far are 0, 1, 2, ... in stored order, each once, the
\* record handed over last is the stored record at the last index, and a run
\* that completed has dispatched every stored record -- whatever the
\* timestamps (equal, decreasing, missing).
C1_OrderPreserved ==
  /\ \A k \in 1..Len(dispatched) : dispatched[k] = k - 1
  /\ Len(dispatched) <= Len(recording.interactions)
  /\ Len(dispatched) > 0 => current = Stored(dispatched[Len(dispatched)])
  /\ outcome = "completed" => Len(dispatched) = Len(recording.interactions)

\* A completed run of two events whose timestamps decrease.
C1_Witness ==
  /\ outcome = "completed"
  /\ dispatched = <<0, 1>>
  /\ Stored(0).timestamp > Stored(1).timestamp
  /\ Stored(1).timestamp > 0

\* C2 (non-abort on failure): no error leaves startPlayback once its loop has
\* started; after an event whose handling failed the loop goes on to the next
\* index, and a run that has ended has attempted every event of the
\* recording.
C2_FailureIsolated ==
  /\ outcome # "threw"
  /\ (pc = "idle" /\ outcome \notin PreconditionErrors \cup {"none"}) =>
        /\ outcome = "completed"
        /\ Len(dispatched) = Len(recording.interactions)
  /\ \A k \in failed : k < i /\ k + 1 <= Len(dispatched)
  /\ (pc # "idle" /\ failed # {}) => outcome = "running"

\* A completed run whose first event raised an error that was caught, on a
\* live browser, and whose second event was still attempted.
C2_Witness ==
  /\ outcome = "completed"
  /\ browser = "open"
  /\ 0 \in failed
  /\ dispatched = <<0, 1>>

\* C3 (fatal preconditions): a call of startPlayback made with no recording
\* loaded or with no browser initialized ends at once with the error, with no
\* event dispatched and no browser operation performed; the loop runs only
\* with a recording and a browser.
C3_PreconditionsFatal ==
  [][(pc = "idle" /\ runs' = runs + 1 /\ (~recording.loaded \/ browser = "null"))
       => /\ outcome' \in PreconditionErrors
          /\ pc' = "idle"
          /\ dispatched' = <<>>
          /\ lastOps' = <<>>
          /\ page' = page /\ pageUrl' = pageUrl]_vars

\* startPlayback was refused for want of a browser although a recording is
\* loaded.
C3_Witness ==
  /\ outcome = "Browser not initialized"
  /\ recording.loaded
  /\ Len(recording.interactions) > 0
  /\ dispatched = <<>>
  /\ lastOps = <<>>

\* C6 (the delay is always waited), as claimed: before every event of index
\* i > 0 for which a delay was computed, the controller has waited that
\* delay, which is at least the floor.
C6_DelayAlwaysWaited ==
  (pc = "play" /\ i > 0 /\ previousTimestamp # 0 /\ Stored(i).timestamp # 0) =>
     /\ waits[i + 1] = delay
     /\ RatLE(RatOfInt(FloorMs), waits[i + 1])

\* C7 (no delay before the first event): in every run, the first included,
\* nothing is waited before event 0.
C7_NoDelayBeforeFirst ==
  Len(waits) >= 1 => waits[1] = NoWait

\* A second run about to play event 0, the first run having ended on a
\* timestamp 500 ms before that of event 0.
C7_Witness ==
  /\ runs = 2
  /\ pc = "play"
  /\ i = 0
  /\ waits = <<NoWait>>
  /\ Len(recording.interactions) = 2
  /\ Stored(0).timestamp = 1500
  /\ Stored(1).timestamp = 1000

----------------------------------------------------------------------------
(* Properties of the Element Resolver *)

OpIndices == DOMAIN lastOps
\* Operations of a candidate loop, and the first operation a handler performs
\* on an element it found.
CandidateOps == {"$", "click", "focus", "keyboard.clear", "type"}
ElementActions == {"click", "focus"}
Typing == {"input", "text", "search"}
UsesCandidate(k, sel) == lastOps[k].op \in CandidateOps /\ lastOps[k].sel = sel
ActsOn(k, sel) == lastOps[k].op \in ElementActions /\ lastOps[k].sel = sel
Logged(m) == \E k \in DOMAIN console : console[k].msg = m
MouseClicks == {k \in OpIndices : lastOps[k].op = "mouse.click"}
ElementClicks == {k \in OpIndices : lastOps[k].op = "click" /\ lastOps[k].ok}

\* The last event was a click or typing event whose record has a selector and
\* an id that give different candidates, both matching a present element, and
\* its candidate loop ran.
SelectorAndIdMatch ==
  /\ current.type \in {"click"} \cup Typing
  /\ Truthy(current.selector) /\ Truthy(current.id)
  /\ current.selector # "#" \o current.id
  /\ {current.selector, "#" \o current.id} \subseteq dom
  /\ \E k \in OpIndices : lastOps[k].op = "$"

C9_AbsentFieldsNotQueried ==
  \A k \in OpIndices :
     /\ ~Truthy(current.id) => lastOps[k].sel \notin {"#undefined", "#null"}
     /\ current.className = <<>> => lastOps[k].sel # ".undefined"
     /\ ~Truthy(current.name) =>
          lastOps[k].sel \notin {"[name=\"undefined\"]", "[name=\"null\"]"}

\* The candidate loop of the last click event ran and clicked no element.
ClickUnresolved ==
  /\ current.type = "click"
  /\ \E k \in OpIndices : lastOps[k].op = "waitForSelector"
  /\ ElementClicks = {}

\* C10 (coordinate fallback): a click event none of whose candidates was
\* clicked issues exactly one mouse click, at the recorded (x, y), when the
\* record has coordinates; without coordinates it issues no click, logs that
\* the element could not be clicked and raises no error.
C10_CoordinateFallback ==
  ClickUnresolved =>
     IF current.coordinates # <<>>
       THEN /\ Cardinality(MouseClicks) = 1
            /\ \A k \in MouseClicks : lastOps[k].xy = current.coordinates
       ELSE /\ MouseClicks = {}
            /\ Logged("Could not click element")
            /\ ~caught

\* A present element whose click failed, then a mouse click at (10, 20).
C10_Witness ==
  /\ ClickUnresolved
  /\ current.coordinates = <<10, 20>>
  /\ \E k \in OpIndices : lastOps[k].op = "click" /\ ~lastOps[k].ok
  /\ \E k \in OpIndices : lastOps[k] = OpXY("mouse.click", <<10, 20>>, TRUE)

\* The candidate loop of the last typing event ran and no candidate was
\* focused.
InputUnresolved ==
  /\ current.type \in Typing
  /\ \E k \in OpIndices : lastOps[k].op = "waitForSelector"
  /\ \A k \in OpIndices : ~(lastOps[k].op = "focus" /\ lastOps[k].ok)

\* C11 (no coordinate fallback for typing): an input/text/search event none of
\* whose candidates could be used types nothing, issues no mouse click (the
\* record's coordinates are not used), logs that it could not type and raises
\* no error.
C11_InputUnresolvedSkipped ==
  InputUnresolved =>
     /\ \A k \in OpIndices : lastOps[k].op \notin {"type", "keyboard.clear"}
     /\ MouseClicks = {}
     /\ Logged("Could not type in element")
     /\ ~caught

\* A typing record with coordinates whose element was present but could not
\* be focused: skipped.
C11_Witness ==
  /\ InputUnresolved
  /\ current.coordinates = <<10, 20>>
  /\ \E k \in OpIndices : lastOps[k].op = "focus" /\ ~lastOps[k].ok
  /\ Logged("Could not type in element")

\* Candidates of the last click or typing event that matched a present
\* element, and the attempts a resolved event should not make: the query of
\* a further candidate, the click at the coordinates.
Matches ==
  {k \in OpIndices :
     current.type \in {"click"} \cup Typing /\ lastOps[k].op = "$" /\ lastOps[k].ok}
FurtherAttempts == {k \in OpIndices : lastOps[k].op \in {"$", "mouse.click"}}

MouseClicksDone == {k \in MouseClicks : lastOps[k].ok}

\* C32 (at most one click per click event): the handling of a click event
\* issues at most one click that succeeds, counting the clicks on elements
\* and the click at the coordinates together; so never two element clicks
\* and never an element click and a coordinate click.
C32_AtMostOneClick ==
  current.type = "click" =>
     Cardinality(ElementClicks) + Cardinality(MouseClicksDone) <= 1

\* Two candidates matched and neither could be clicked; the one click that
\* succeeded is the click at the coordinates.
C32_Witness ==
  /\ current.type = "click"
  /\ Cardinality({k \in OpIndices : lastOps[k].op = "click" /\ ~lastOps[k].ok}) >= 2
  /\ ElementClicks = {}
  /\ Cardinality(MouseClicksDone) = 1

----------------------------------------------------------------------------
(* Properties of the Action Dispatcher *)

\* The handler of the last event was entered: it waited for the record's
\* selector.
HandlerRan == \E k \in OpIndices : lastOps[k].op = "waitForSelector"
ClickCalls == {k \in OpIndices : lastOps[k].op = "click"}

\* The last event was a change or select-one event none of whose candidate
\* selectors matched an element of the page.
ChangeTargetAbsent ==
  /\ current.type \in {"change", "select-one"}
  /\ HandlerRan
  /\ dom = {}

\* C12 (change on an absent target), as claimed: a change/select-one event
\* whose element is not in the page raises an error, caught for that event,
\* and reports neither a selection nor a changed value -- for SELECT and
\* non-SELECT records alike.
C12_AbsentChangeRaises ==
  ChangeTargetAbsent =>
     /\ caught
     /\ ~Logged("Selected")
     /\ ~Logged("Changed value")

\* The last event was a submit event whose handler ran and whose target is
\* absent from the page or is not a FORM.
SubmitTargetNotForm ==
  /\ current.type = "submit"
  /\ HandlerRan
  /\ current.selector \notin dom \/ ~element.isForm

\* C13 (submit only on a FORM), as claimed: the form is submitted only when
\* the target is present and a FORM; on an absent or non-FORM target the
\* event raises an error, caught for that event, and no submitted form is
\* reported.
C13_SubmitOnlyForm ==
  (current.type = "submit" /\ HandlerRan) =>
     /\ (\E k \in OpIndices : lastOps[k].op = "submit")
           => (current.selector \in dom /\ element.isForm)
     /\ SubmitTargetNotForm => (caught /\ ~Logged("Submitted form"))

\* The last event was a checkbox event and the checked state of its element
\* was read.
CheckboxResolved ==
  /\ current.type = "checkbox"
  /\ \E k \in OpIndices : lastOps[k].op = "$eval" /\ lastOps[k].ok
\* record.checked, or value === "true"
Desired == current.checked \/ current.value = "true"

\* C14 (checkbox idempotence), as claimed: when the desired state equals the
\* element's checked state no click is issued; when they differ exactly one
\* click is issued and the element ends in the desired state.
C14_ExactlyOneClick ==
  CheckboxResolved =>
     IF element.before = Desired
       THEN ClickCalls = {}
       ELSE Cardinality(ClickCalls) = 1 /\ element.after = Desired

\* C14, amended: when the states are equal no click is issued and nothing is
\* raised; when they differ the element is clicked, a click that throws is
\* retried on the next candidate, at most one click succeeds, the event ends
\* without error exactly when one did, and then the element is in the desired
\* state; otherwise its state is unchanged and the event raised an error.
C14_CheckboxToggle ==
  CheckboxResolved =>
     IF element.before = Desired
       THEN ClickCalls = {} /\ ~caught /\ element.after = element.before
       ELSE /\ ClickCalls # {}
            /\ Cardinality(ElementClicks) <= 1
            /\ \A k \in ClickCalls : lastOps[k].ok => \A j \in ClickCalls : j <= k
            /\ ~caught <=> Cardinality(ElementClicks) = 1
            /\ ~caught => element.after = Desired
            /\ caught => element.after = element.before

\* A checked box whose record has checked false and value "true": left
\* alone.
C14_Witness ==
  /\ CheckboxResolved
  /\ ~current.checked /\ current.value = "true"
  /\ element.before /\ element.after
  /\ ClickCalls = {}
  /\ ~caught

\* The kinds the switch of playInteraction has a case for, and the browser
\* operations that act on the page.
SupportedKinds ==
  {"navigation", "click", "input", "text", "search", "change", "select-one",
   "submit", "checkbox", "range"}
PageActions ==
  {"goto", "click", "mouse.click", "focus", "keyboard.clear", "type", "select",
   "setValue", "dispatchEvent", "submit"}

\* C15 (unknown kinds are a no-op), as claimed: an event of an unsupported
\* kind played on a live browser performs no navigation, click, typing or
\* value change, logs that it is skipped and raises no error.
C15_UnknownKindNoOp ==
  (current # NoInteraction /\ current.type \notin SupportedKinds
     /\ browser = "open") =>
     /\ \A k \in OpIndices : lastOps[k].op \notin PageActions
     /\ Logged("Skipping unsupported interaction type")
     /\ ~caught

\* The event handed to the last playInteraction call carries a url that is
\* not the URL the page had when the call was entered, and the call got past
\* its liveness probe.
NeedsNavigation ==
  /\ current # NoInteraction
  /\ Truthy(current.url)
  /\ current.url # entry.url
  /\ \A k \in OpIndices : ~(lastOps[k].op = "pages" /\ ~lastOps[k].ok)

Gotos == {k \in OpIndices : lastOps[k].op = "goto"}

\* The handler of the current event's kind ran after operation k.
HandlerRanAfter(k) ==
  CASE current.type = "navigation" ->
         \E j \in Gotos : j > k /\ lastOps[j].sel = current.url
    [] current.type \in SupportedKinds \ {"navigation"} ->
         \E j \in OpIndices : j > k /\ lastOps[j].op \in {"waitForSelector", "$"}
    [] OTHER -> Logged("Skipping unsupported interaction type")

\* C27 (navigation before dispatch, failure tolerated): when the event's url
\* is set and differs from the page URL, the first operation that acts on the
\* page is a navigation to that url; when that navigation fails the page
\* stays where it was, the handler of the event's kind still runs, and an
\* error is caught for the event only if a later operation failed.
C27_NavigateFirst ==
  NeedsNavigation =>
    \E k \in Gotos :
      /\ lastOps[k].sel = current.url
      /\ \A j \in OpIndices : j < k => lastOps[j].op \notin PageActions
      /\ ~lastOps[k].ok =>
           /\ HandlerRanAfter(k)
           /\ caught => \E j \in OpIndices : j > k /\ ~lastOps[j].ok
           /\ current.type # "navigation" => pageUrl = entry.url

\* An element event whose navigation failed and whose handler then ran
\* without an error.
C27_Witness ==
  /\ NeedsNavigation
  /\ current.type \in SupportedKinds \ {"navigation"}
  /\ \E k \in Gotos : ~lastOps[k].ok /\ HandlerRanAfter(k)
  /\ ~caught
  /\ pageUrl = entry.url

----------------------------------------------------------------------------
(* Properties of repeated runs *)

\* What the loop waits before the event at position k (1-based) of the loaded
\* recording at the current speed.
ExpectedWait(k) ==
  IF k = 1 THEN NoWait
  ELSE LET p == Stored(k - 2).timestamp
           c == Stored(k - 1).timestamp
       IN IF p # 0 /\ c # 0 THEN Waited(calculateDelay(p, c, playbackSpeed))
                             ELSE NoWait

\* C18 (a second run replays from the start): in every run, the second
\* included, the events are dispatched from index 0 in stored order, the
\* loop index is the number of events dispatched, the waits are those the
\* recording and the speed alone determine, and a completed run has
\* dispatched every event -- whatever the run before did or ended on.
C18_SecondRunFromStart ==
  /\ \A k \in 1..Len(dispatched) : dispatched[k] = k - 1
  /\ pc # "idle" => i = Len(dispatched)
  /\ \A k \in 1..Len(waits) : waits[k] = ExpectedWait(k)
  /\ outcome = "completed" =>
        /\ Len(dispatched) = Len(recording.interactions)
        /\ Len(waits) = Len(recording.interactions)

\* A second run that completed a recording of two events 500 ms apart.
C18_Witness ==
  /\ runs = 2
  /\ outcome = "completed"
  /\ dispatched = <<0, 1>>
  /\ Stored(0).timestamp = 1000 /\ Stored(1).timestamp = 1500
  /\ waits = <<NoWait, calculateDelay(1000, 1500, playbackSpeed)>>

\* C19 (the recording is read-only): no call of startPlayback, step of its
\* loop or handler changes the loaded recording -- its interactions, their
\* fields or its totalInteractions.
C19_RecordingUnchanged ==
  [][recording.loaded => recording' = recording]_vars

\* A second run that completed with both of its events failed, the recording
\* still holding two records.
C19_Witness ==
  /\ runs = 2
  /\ outcome = "completed"
  /\ failed = {0, 1}
  /\ recording.loaded
  /\ Len(recording.interactions) = 2

----------------------------------------------------------------------------
(* Properties of main *)

\* The messages loadRecording and startPlayback log for every recording.
OrdinaryMessages ==
  {"Loaded recording", "Total interactions", "Duration", "Starting playback of",
   "Press Ctrl+C to stop playback", "Playback completed successfully"}
\* The declared totalInteractions of the loaded recording is not the number
\* of its events.
Mismatch ==
  recording.loaded /\ recording.totalInteractions # Len(recording.interactions)

\* C20 (totalInteractions mismatch), as claimed: with a declared total that
\* differs from the number of events, playback does not fail, a run that
\* completed has dispatched as many events as the recording holds, and a
\* warning about the mismatch has been logged by then.
C20_MismatchWarned ==
  Mismatch =>
     /\ outcome \notin PreconditionErrors \cup {"threw"}
     /\ outcome = "completed" =>
          /\ Len(dispatched) = Len(recording.interactions)
          /\ \E k \in DOMAIN (loadLog \o startLog) :
                (loadLog \o startLog)[k].msg \notin OrdinaryMessages

\* C16 (orderly stop on SIGINT), as claimed: once the interrupt has been
\* received no further event is dispatched, and the browser is closed when
\* the process exits.
C16_NoDispatchAfterInterrupt ==
  /\ [](sigint = "exited" => browser = "closed")
  /\ [][sigint # "none" => dispatched' = dispatched]_vars

\* C17 (a cancelled run does not complete), as claimed: once the interrupt
\* has been received the run never reports that playback completed.
C17_NoCompletionAfterInterrupt ==
  [][(sigint # "none" /\ outcome # "completed") =>
        (outcome' # "completed" /\ startLog' = startLog)]_vars

\* Operations of the last event, by kind.
OpsOf(op) == {k \in OpIndices : lastOps[k].op = op}

\* C22 (select versus set value): a change/select-one event whose record has
\* tagName SELECT uses option selection by the recorded value and never sets
\* a value or dispatches an event itself, and ends without error exactly when
\* one selection succeeded; with any other tagName it never uses option
\* selection, and on a present target it sets the value to the recorded value
\* once and dispatches one change notification.
C22_SelectOrSetValue ==
  (current.type \in {"change", "select-one"} /\ HandlerRan) =>
     IF current.tagName = "SELECT"
       THEN /\ OpsOf("select") # {}
            /\ \A k \in OpsOf("select") : lastOps[k].val = current.value
            /\ OpsOf("evaluate") \cup OpsOf("setValue") \cup OpsOf("dispatchEvent") = {}
            /\ ~caught <=> Cardinality({k \in OpsOf("select") : lastOps[k].ok}) = 1
       ELSE /\ OpsOf("select") = {}
            /\ (current.selector \in dom /\ ~caught) =>
                  /\ Cardinality(OpsOf("setValue")) = 1
                  /\ \A k \in OpsOf("setValue") :
                        lastOps[k].sel = current.selector /\ lastOps[k].val = current.value
                  /\ Cardinality(OpsOf("dispatchEvent")) = 1
                  /\ \A k \in OpsOf("dispatchEvent") :
                        lastOps[k].sel = current.selector /\ lastOps[k].val = "change"

\* A change on a present INPUT with value "USA": the value was set and a
\* change notification dispatched.
C22_Witness ==
  /\ current.type = "change"
  /\ current.tagName = "INPUT"
  /\ \E k \in OpIndices : lastOps[k] = OpVal("setValue", "#country", "USA", TRUE)
  /\ \E k \in OpIndices : lastOps[k] = OpVal("dispatchEvent", "#country", "change", TRUE)
  /\ OpsOf("select") = {}
  /\ ~caught

----------------------------------------------------------------------------
(* Properties of the candidate selectors *)

\* Operations that address an element by a selector.
SelectorOps ==
  {"$", "$eval", "click", "focus", "keyboard.clear", "type", "select",
   "evaluate", "setValue", "dispatchEvent", "submit"}

\* The selectors the operations put to the page, each once, in the order of
\* their first use.
RECURSIVE FirstUses(_, _)
FirstUses(ops, seen) ==
  IF ops = <<>> THEN <<>>
  ELSE LET o == Head(ops)
       IN IF o.op \notin SelectorOps \/ o.sel \in seen \cup {"document.readyState"}
            THEN FirstUses(Tail(ops), seen)
            ELSE <<o.sel>> \o FirstUses(Tail(ops), seen \cup {o.sel})

Tried == FirstUses(lastOps, {})

IsPrefix(xs, ys) == Len(xs) <= Len(ys) /\ xs = SubSeq(ys, 1, Len(xs))

\* No operation on a candidate succeeded.
NothingWorked ==
  \A k \in OpIndices : lastOps[k].op \in SelectorOps => ~lastOps[k].ok

\* The handler of an element-targeted event with all fields present ran on a
\* live page.
CandidatesTried ==
  /\ current \in CandidateRecords
  /\ \E k \in OpIndices : lastOps[k].op = "waitForSelector"

UniformOrder ==
  <<current.selector, "#f", ".btn.primary",
    IF current.tagName = "SELECT" THEN "select" ELSE "input">>

\* C30 (candidate order), as claimed: for every element-targeted kind the
\* selectors are tried in the order selector, #id, .class1.class2, tag: the
\* selectors put to the page form a beginning of that list, and the whole
\* list when nothing worked.
C30_UniformOrder ==
  CandidatesTried =>
     /\ IsPrefix(Tried, UniformOrder)
     /\ NothingWorked => Tried = UniformOrder

OrderOfKind ==
  CASE current.type = "click" -> UniformOrder
    [] current.type \in {"range", "submit"} -> <<current.selector>>
    [] OTHER -> <<current.selector, "#f", "[name=\"q\"]">>

\* C30, amended: a click tries selector, #id, .class1.class2, tag; typing,
\* change/select-one and checkbox events try selector, #id, [name="..."];
\* range and submit use the record's selector only.  The selectors put to
\* the page form a beginning of the kind's list, and the whole list when
\* nothing worked.
C30_OrderByKind ==
  CandidatesTried =>
     /\ IsPrefix(Tried, OrderOfKind)
     /\ NothingWorked => Tried = OrderOfKind

\* A checkbox event none of whose candidates was present: the selector, the
\* id and the name were tried, in this order.
C30_Witness ==
  /\ CandidatesTried
  /\ current.type = "checkbox"
  /\ NothingWorked
  /\ Tried = <<"form > .field", "#f", "[name=\"q\"]">>

----------------------------------------------------------------------------
(* Properties of the scenarios *)

\* Every browser call of the last event succeeded, but for queries that
\* found no element.
CallsSucceeded ==
  \A k \in OpIndices : lastOps[k].ok \/ lastOps[k].op \in {"$", "waitForSelector"}
\* Index of the last event handled.
LastIndex == Len(dispatched) - 1

ProbeFailed == \E k \in OpIndices : lastOps[k].op = "url" /\ ~lastOps[k].ok
ReadyFailed ==
  \E k \in OpIndices :
    /\ lastOps[k].op = "evaluate" /\ lastOps[k].sel = "document.readyState"
    /\ ~lastOps[k].ok

\* The browser's page list is read right after the failed probe, before any
\* operation that acts on a page.
PagesReadFirst ==
  \E k \in OpIndices :
    /\ lastOps[k].op = "pages" /\ lastOps[k].ok
    /\ k > 1 /\ lastOps[k - 1].op = "url"
    /\ \A j \in OpIndices : j < k => lastOps[j].op \notin PageActions

\* C28 (stale page handle): in a step that plays an event on an open browser,
\* if the probe at the start of the event finds the handle stale, the page
\* list is read before any action of the event; if the probe or
\* ensurePageReady finds it stale, this.page becomes the last entry of the
\* list; if the handle is live at both, this.page is left as it was.
C28_StalePageReplaced ==
  [][ (Len(dispatched') > Len(dispatched) /\ browser = "open") =>
        /\ ProbeFailed' => PagesReadFirst'
        /\ (ProbeFailed' \/ ReadyFailed') => page' = pages[Len(pages)]
        /\ (~ProbeFailed' /\ ~ReadyFailed') => page' = page
    ]_vars

\* An event was played with a stale handle while the browser had further
\* pages open: this.page has moved to the last of them.
C28_Witness ==
  /\ browser = "open"
  /\ ProbeFailed
  /\ Len(pages) = MaxPages
  /\ entry.page # page
  /\ page = pages[Len(pages)]
  /\ \E k \in OpIndices : lastOps[k].op \in PageActions

----------------------------------------------------------------------------
(* Properties of the recorder *)

IsHost(x) == x.sessionId = SessionId
IsPage(x) == x.sessionId = Undefined

\* C24 (one record per call, the file is what was recorded): a step in which
\* the host's recordInteraction captures an interaction appends exactly that
\* one record to this.interactions, and a step that writes the file writes
\* the interactions recorded so far, in their order, with totalInteractions
\* equal to the length of the written array.
C24_RecordAndSave ==
  [][ /\ (captured' # captured /\ IsHost(Last(captured')))
          => recorded' = Append(recorded, Last(captured'))
      /\ (savedFile' # savedFile)
          => /\ savedFile'.saved
             /\ savedFile'.interactions = recorded
             /\ savedFile'.totalInteractions = Len(savedFile'.interactions)
    ]_vars

\* Records of both origins have been recorded, drained ones among them, and
\* saved.
C24_Witness ==
  /\ savedFile.saved
  /\ savedFile.totalInteractions = MaxCaptures
  /\ \E k \in DOMAIN savedFile.interactions :
       savedFile.interactions[k].type = "test"
  /\ \E k \in DOMAIN savedFile.interactions :
       IsPage(savedFile.interactions[k])

Ordered(xs) ==
  \A j, k \in DOMAIN xs : j < k => xs[j].timestamp < xs[k].timestamp

\* C25 (capture order), as claimed: in a saved recording a record captured
\* earlier stands before a record captured later, whatever the interleaving
\* of in-page events and navigations (records pushed by a direct call of
\* recordInteraction are left aside).
C25_CaptureOrder ==
  savedFile.saved =>
    Ordered(SelectSeq(savedFile.interactions, LAMBDA x : x.type # "test"))

\* C26 (at-least-once delivery), as claimed: when the recorder has saved and
\* exited on the interrupt, every interaction captured in a page buffer is in
\* the saved recording.
C26_AllDelivered ==
  recorderPc = "exited" =>
    \A k \in DOMAIN captured :
      IsPage(captured[k]) =>
        \E j \in DOMAIN savedFile.interactions :
          savedFile.interactions[j].timestamp = captured[k].timestamp

----------------------------------------------------------------------------
(* Properties of sequential dispatch *)

\* C31 (one event at a time): at most one playInteraction call is in flight;
\* it is the call of the event the loop is waiting for; and while the loop
\* is at the delay or at the call of an event, or has ended, no call is in
\* flight, so every browser operation of the events before has finished or
\* failed.
C31_OneAtATime ==
  /\ Cardinality(inFlight) <= 1
  /\ \A f \in inFlight : pc = "await" /\ f.index = i
  /\ pc \in {"idle", "delay", "play"} => inFlight = {}

\* The second event of scenario 1 is in flight with some of its browser
\* operations made and others to come, the first event having returned.
C31_Witness ==
  /\ recording.interactions = Scenario1
  /\ dispatched = <<0, 1>>
  /\ \E f \in inFlight : f.index = 1 /\ f.todo # <<>>
  /\ lastOps # <<>>
  /\ pc = "await"

====
